---- MODULE Spec2Model ----
(***************************************************************************)
(* Request handlers of sarosh-site: serverless HTTP handlers that forward  *)
(* text, images or files to an LLM API, four of them keeping a             *)
(* process-local conversation store (a Map from conversationId to an       *)
(* array of role-tagged messages).                                         *)
(*                                                                         *)
(* A handler runs to its first outbound await in one step (Receive), and   *)
(* is resumed by the completion of that call (Complete).  Arrays are heap  *)
(* objects: `conversations.get(id) || []` yields either the stored array   *)
(* itself (an alias, mutated in place by push) or a fresh one.             *)
(***************************************************************************)
EXTENDS Integers, Sequences, FiniteSets, TLC

\* ------------------------------------------------------------------ bounds
\* Requests that may be in flight at once.
MaxInFlight == 2
\* Arrays (message histories) alive at once.
MaxArr == 2
\* Messages held by all arrays together.
MaxMsgs == 4
\* The same, where all handlers run together.
MaxHttpMsgs == 2

\* ------------------------------------------------------------ value domains
Slots == 1..MaxInFlight
ArrIds == 1..MaxArr
\* Strings a client may invent as conversationId, and the tokens uuidv4() draws.
ClientIds == {"c1"}
UUIDs == {"u1"}
Ids == ClientIds \cup UUIDs
\* Non-empty request texts (prompt / text / message); "" stands for an absent field.
Texts == {"m1", "m2"}
\* Content of a successful completion.
Reply == "r1"

\* part_000 / example.express.ts /api/chat: history is sent as is, `|| ""`.
\* part_001 and detailedsummary.js: a system message leads, the user prompt is prefixed.
StoreHandlers == {"part_000", "express_chat", "part_001", "detailedsummary"}

\* The handlers without a store.  part_003, part_006 and part_007 each hold two
\* handlers (a, b in file order).  Line 11 of api/ai-request.js is not JavaScript:
\* the module never loads and no request reaches the code of its handler.
StatelessHandlers ==
    {"simplesummary", "part_006a", "chat2", "part_002", "part_003a", "part_003b",
     "part_004", "part_005", "part_006b", "part_007a", "part_007b", "part_008",
     "vision3", "express_vision", "api_chat", "summarize", "login", "ai_request"}
Handlers == StoreHandlers \cup StatelessHandlers

\* How an outbound call may end: a 2xx JSON reply with content, a 2xx JSON reply
\* without content, a non-2xx status with a JSON error body, a non-2xx status with
\* a non-JSON body, or a rejected promise (network failure).
Outcomes == {"ok", "ok_empty", "err_json", "err_text", "throw"}
\* openai.chat.completions.create either resolves or throws, whatever the failure.
ChatOutcomes == {"ok", "throw"}

VARIABLES
    conversations,  \* [handler -> [id -> array reference, 0 when the Map has no entry]]
    heap,           \* [array reference -> sequence of messages]
    slots,          \* [slot -> the request in flight there, or Idle]
    env,            \* process.env: which variables are set
    issued,         \* the uuids uuidv4() has returned
    boot,           \* the last restart: its handler and the keys it lost, until a chat enters that store
    act,            \* the last step: its kind and the handler it ran in
    out,            \* the outbound call the last step issued, or NoCall
    resp            \* the response the last step sent, or NoResp

vars == <<conversations, heap, slots, env, issued, boot, act, out, resp>>

\* ------------------------------------------------------------------ requests

\* A request as a handler sees it.  body: req.body is defined (JSON handlers) or the
\* multipart form parses (upload handlers).  text: the prompt / text / message
\* field.  cid: the conversationId field.  The other fields stay at their blank
\* value for handlers that never read them.
Blank ==
    [method |-> "POST", body |-> TRUE, text |-> "", cid |-> "",
     image |-> "none", file |-> "none", raw |-> "empty", cookie |-> "none",
     age |-> 0]

\* A conversationId a client can send: none, a string of its own, or one a
\* response has shown it.
ClientCids == {""} \cup ClientIds \cup issued

NoBody == [Blank EXCEPT !.body = FALSE]
OtherMethod(m) == [Blank EXCEPT !.method = m, !.body = FALSE]
\* A JSON body with the text field, or an empty object.
JsonInputs == {[Blank EXCEPT !.text = t, !.cid = c] : t \in Texts, c \in ClientCids} \cup {Blank}

\* The uploaded document of detailedsummary.js, by what extractTextFromFile makes
\* of it: text, an empty text, or a thrown error (.doc, unknown extension, bad pdf).
Files == {"none", "text", "empty", "bad"}
FileText == "F"
\* A multipart form of detailedsummary.js: text (absent, blank or not), file and
\* conversationId.
FormInputs ==
    {[Blank EXCEPT !.text = t, !.cid = c, !.file = f] :
        t \in {"", " ", "m1"}, c \in ClientCids, f \in Files}

\* JSON bodies of the handlers that read one text field and no conversationId.
TextInputs == {Blank, [Blank EXCEPT !.text = "m1"]}
\* image: the data URL field, absent, well-formed or not matching the pattern.
ImageInputs ==
    {[Blank EXCEPT !.text = t, !.image = i] :
        t \in {"", "m1"}, i \in {"none", "valid", "invalid"}}
\* A multipart form of the upload handlers: message and file.
UploadInputs == {[Blank EXCEPT !.text = t, !.file = f] : t \in {"", "m1"}, f \in Files}
\* A multipart form of the vision handlers: the image part and a conversationId.
VisionInputs ==
    {[Blank EXCEPT !.cid = c, !.file = f] : c \in ClientCids, f \in {"none", "text"}}
\* part_002: req.body is a non-empty object, or the raw stream is read: nothing,
\* a JSON text, or a text that is not JSON.
RawInputs ==
    {[Blank EXCEPT !.text = "m1"]}
    \cup {[Blank EXCEPT !.body = FALSE, !.raw = r] : r \in {"empty", "json", "garbage"}}
\* api/api/chat.js line 25: SESSION_MAX_AGE_SEC unset, `3600 * 1000` ms.
SessionMaxAgeSec == 3600
MaxAgeMs == SessionMaxAgeSec * 1000
\* api/api/chat.js lines 6-26, the token cookie: no token pair, an empty token, a
\* token without signature part, a signature that is not the HMAC-SHA256 of the
\* payload, a signed payload that is not JSON, or a signed JSON payload ("valid")
\* of age `Date.now() - iat` in ms.
BadCookies == {"none", "empty", "nosig", "badsig", "badjson"}
Ages == {0, MaxAgeMs, MaxAgeMs + 1}
CookieInputs ==
    {[Blank EXCEPT !.text = t, !.cookie = c] : t \in {"", "m1"}, c \in BadCookies}
    \cup {[Blank EXCEPT !.text = t, !.cookie = "valid", !.age = a] :
            t \in {"", "m1"}, a \in Ages}
\* process.env.SITE_PASSWORD, and the passwords a client may try.
SitePassword == "m2"
LoginInputs == {[Blank EXCEPT !.text = t] : t \in {"", "m1", SitePassword}}

Preflight == {NoBody, OtherMethod("GET"), OtherMethod("OPTIONS")}

InputsOf(h) ==
    CASE h = "part_000" -> JsonInputs \cup {NoBody, OtherMethod("GET")}
      [] h = "express_chat" -> JsonInputs \cup {NoBody}
      [] h = "part_001" -> JsonInputs \cup {NoBody, OtherMethod("GET")}
      [] h = "detailedsummary" -> FormInputs \cup {NoBody, OtherMethod("GET")}
      [] h \in {"simplesummary", "part_006a", "part_003a"} -> TextInputs \cup Preflight
      [] h \in {"chat2", "part_003b", "part_004", "part_005"} -> ImageInputs \cup Preflight
      [] h \in {"part_006b", "part_007a", "part_007b", "part_008"} -> UploadInputs \cup Preflight
      [] h = "vision3" -> VisionInputs \cup {NoBody, OtherMethod("GET")}
      [] h = "express_vision" -> VisionInputs \cup {NoBody}
      [] h = "part_002" -> RawInputs \cup {OtherMethod("GET")}
      [] h = "api_chat" -> CookieInputs \cup {NoBody, OtherMethod("GET")}
      [] h = "summarize" -> TextInputs \cup {NoBody, OtherMethod("GET")}
      [] h = "login" -> LoginInputs \cup {NoBody, OtherMethod("GET")}
      [] h = "ai_request" -> TextInputs \cup Preflight

\* The chat requests of the store handlers: a text with or without a
\* conversationId, and the request without text.
ChatInputsOf(h) == JsonInputs

\* ------------------------------------------------------------------ messages
Msg(r, c) == [role |-> r, content |-> c]

\* part_001 line 32 and detailedsummary.js line 101: the prompt put before the text.
SimplePrompt == "summarize this simply but make sure i understand and keep it short"
DetailedPrompt == "analyze this simply, make sure i understand but dont simplify too much, still be in the detail and make sure all the details are there so i understand"

\* The system message that leads the messages of the summary handlers.
SimpleSystem == "You are a helpful assistant that provides clear, concise summaries. Keep your responses short and easy to understand."
DetailedSystem == "You are a helpful assistant that provides detailed, comprehensive analyses while maintaining clarity. Include all important details but explain them in an understandable way. Structure your response with clear sections and bullet points where appropriate."

SystemOf(h) ==
    CASE h = "part_001" -> <<Msg("system", SimpleSystem)>>
      [] h = "detailedsummary" -> <<Msg("system", DetailedSystem)>>
      [] OTHER -> <<>>

\* `completion.choices[0]?.message?.content || <fallback>`
FallbackOf(h) ==
    CASE h = "part_001" -> "Unable to generate summary"
      [] h = "detailedsummary" -> "Unable to generate detailed analysis"
      [] OTHER -> ""

AssistantText(h, o) == IF o = "ok" THEN Reply ELSE FallbackOf(h)

\* detailedsummary.js lines 75-91: the text field, led by the extracted file text.
TextToAnalyze(in) ==
    CASE in.file = "text" -> FileText \o (IF in.text # "" THEN "\n\n" \o in.text ELSE "")
      [] in.file = "empty" -> IF in.text # "" THEN "\n\n" \o in.text ELSE ""
      [] OTHER -> in.text

\* `!textToAnalyze.trim()`: the strings of the model that trim to nothing.
IsBlank(t) == t \in {"", " ", "\n\n "}

\* The content of the user message a store handler pushes.
UserContent(h, in) ==
    CASE h = "part_001" -> SimplePrompt \o "\n\n" \o in.text
      [] h = "detailedsummary" -> DetailedPrompt \o "\n\n" \o TextToAnalyze(in)
      [] OTHER -> in.text

\* ------------------------------------------------------------- request state
Idle ==
    [pc |-> "idle", h |-> "", in |-> Blank, arr |-> 0, newId |-> "",
     calls |-> 0, first |-> FALSE]
NoCall == [target |-> "none"]
NoResp == [n |-> 0]
NoBoot == [h |-> "", prior |-> {}]

\* What a handler does up to its first outbound call: it answers (resp), or it
\* enters the store and calls the LLM (chat).  draw: uuidv4() was called on the way.
PResp(status, up, draw) ==
    [k |-> "resp", status |-> status, up |-> up, draw |-> draw, cid |-> ""]
\* (a handler that never takes the client's conversationId)
PChatAlwaysNew(conversationId) ==
    [k |-> "chat", status |-> 0, up |-> "none", draw |-> TRUE, cid |-> ""]
PChat(conversationId) ==
    [k |-> "chat", status |-> 0, up |-> "none", draw |-> (conversationId = ""),
     cid |-> conversationId]

\* The handler issues an outbound call to target (openai, hf, s3) and awaits it.
PCall(target, draw) ==
    [k |-> "call", status |-> 0, up |-> "none", draw |-> draw, cid |-> "",
     target |-> target, url |-> "none"]
\* The same, for a call to OpenAI that carries an image: url is what stands for
\* the image in the payload, the "inline" data URL or the "presigned" S3 URL.
PCallImage(url) ==
    [k |-> "call", status |-> 0, up |-> "none", draw |-> FALSE, cid |-> "",
     target |-> "openai", url |-> url]
\* The handler will never answer.
PLost == [k |-> "lost", status |-> 0, up |-> "none", draw |-> FALSE, cid |-> ""]

\* `const { prompt, conversationId } = req.body || {}`
\* (FieldDefault: a handler that puts a default text in place of an absent field.)
FieldDefault(in, f) == "m1"
Field(in, f) == IF in.body THEN in[f] ELSE ""

\* part_000 lines 12-24.
Handler_part_000(in) ==
    IF in.method # "POST" THEN PResp(405, "none", FALSE)
    ELSE IF Field(in, "text") = "" THEN PResp(400, "none", FALSE)
    ELSE IF ~env.apiKey THEN PResp(500, "none", FALSE)
    ELSE PChat(Field(in, "cid"))

\* example.express.ts lines 25-32 (the route is registered for POST alone).
Handler_express_chat(in) ==
    IF Field(in, "text") = "" THEN PResp(400, "none", FALSE)
    ELSE IF ~env.apiKey THEN PResp(500, "none", FALSE)
    ELSE PChat(Field(in, "cid"))

\* part_001 lines 12-28.
Handler_part_001(in) ==
    IF in.method # "POST" THEN PResp(405, "none", FALSE)
    ELSE IF Field(in, "text") = "" THEN PResp(400, "none", FALSE)
    ELSE IF ~env.apiKey THEN PResp(500, "none", FALSE)
    ELSE PChat(Field(in, "cid"))

\* detailedsummary.js lines 63-97: the key is checked before the form is parsed,
\* uuidv4() is called before the text is checked, a file that cannot be
\* extracted answers 400.
Handler_detailedsummary(in) ==
    IF in.method # "POST" THEN PResp(405, "none", FALSE)
    ELSE IF ~env.apiKey THEN PResp(500, "none", FALSE)
    ELSE IF ~in.body THEN PResp(500, "none", FALSE)
    ELSE IF in.file = "bad" THEN PResp(400, "none", in.cid = "")
    ELSE IF IsBlank(TextToAnalyze(in)) THEN PResp(400, "none", in.cid = "")
    ELSE PChat(in.cid)

\* api/simplesummary.js lines 8-33: `const { text } = req.body` throws on an
\* undefined body, inside the try (500).
Handler_simplesummary(in) ==
    IF in.method = "OPTIONS" THEN PResp(200, "none", FALSE)
    ELSE IF in.method # "POST" THEN PResp(405, "none", FALSE)
    ELSE IF ~in.body THEN PResp(500, "none", FALSE)
    ELSE IF in.text = "" THEN PResp(400, "none", FALSE)
    ELSE IF ~env.apiKey THEN PResp(500, "none", FALSE)
    ELSE PCall("openai", FALSE)

\* part_006 lines 8-33.
Handler_part_006a(in) ==
    IF in.method = "OPTIONS" THEN PResp(200, "none", FALSE)
    ELSE IF in.method # "POST" THEN PResp(405, "none", FALSE)
    ELSE IF ~in.body THEN PResp(500, "none", FALSE)
    ELSE IF in.text = "" THEN PResp(400, "none", FALSE)
    ELSE IF ~env.apiKey THEN PResp(500, "none", FALSE)
    ELSE PCall("openai", FALSE)

\* api/chat2.js lines 125-215: an image is decoded and saved, then uploaded to S3
\* when the four AWS variables are set, else sent inline.
Handler_chat2(in) ==
    IF in.method = "OPTIONS" THEN PResp(200, "none", FALSE)
    ELSE IF in.method # "POST" THEN PResp(405, "none", FALSE)
    ELSE IF ~in.body THEN PResp(500, "none", FALSE)
    ELSE IF in.image = "none" /\ in.text = "" THEN PResp(400, "none", FALSE)
    ELSE IF in.image = "invalid" THEN PResp(400, "none", FALSE)
    ELSE IF in.image = "valid" /\ env.aws THEN PCall("s3", FALSE)
    ELSE IF in.image = "valid" THEN PCallImage("inline")
    ELSE PCall("openai", FALSE)

\* part_002 lines 5-24: no field is checked; without a parsed body the stream is
\* read and JSON.parse runs inside the 'end' listener, where a throw escapes the
\* try and leaves the awaited promise unsettled.
Handler_part_002(in) ==
    IF in.method # "POST" THEN PResp(405, "none", FALSE)
    ELSE IF in.body THEN PCall("hf", FALSE)
    ELSE IF in.raw = "garbage" THEN PLost
    ELSE PCall("hf", FALSE)

\* part_003 lines 1-21.
Handler_part_003a(in) ==
    IF in.method = "OPTIONS" THEN PResp(200, "none", FALSE)
    ELSE IF in.method # "POST" THEN PResp(405, "none", FALSE)
    ELSE IF ~in.body THEN PResp(500, "none", FALSE)
    ELSE IF in.text = "" THEN PResp(400, "none", FALSE)
    ELSE PCall("openai", FALSE)

\* part_004 lines 93-162: an image is decoded, saved and sent inline.
Handler_part_004(in) ==
    IF in.method = "OPTIONS" THEN PResp(200, "none", FALSE)
    ELSE IF in.method # "POST" THEN PResp(405, "none", FALSE)
    ELSE IF ~in.body THEN PResp(500, "none", FALSE)
    ELSE IF in.image = "invalid" THEN PResp(400, "none", FALSE)
    ELSE IF in.image = "valid" THEN PCallImage("inline")
    ELSE IF in.text = "" THEN PResp(400, "none", FALSE)
    ELSE PCall("openai", FALSE)

\* (a handler of the shape of part_003's second that sends the image it saved)
SendsSavedImage(in) ==
    IF in.method = "OPTIONS" THEN PResp(200, "none", FALSE)
    ELSE IF in.method # "POST" THEN PResp(405, "none", FALSE)
    ELSE IF ~in.body THEN PResp(500, "none", FALSE)
    ELSE IF in.image = "invalid" THEN PResp(400, "none", FALSE)
    ELSE IF in.image = "valid" THEN PCall("openai", FALSE)
    ELSE IF in.text = "" THEN PResp(400, "none", FALSE)
    ELSE PCall("openai", FALSE)

\* part_003 lines 79-130: an image is decoded and saved, and the handler answers
\* 200 without sending it anywhere.
Handler_part_003b(in) ==
    IF in.method = "OPTIONS" THEN PResp(200, "none", FALSE)
    ELSE IF in.method # "POST" THEN PResp(405, "none", FALSE)
    ELSE IF ~in.body THEN PResp(500, "none", FALSE)
    ELSE IF in.image = "invalid" THEN PResp(400, "none", FALSE)
    ELSE IF in.image = "valid" THEN PResp(200, "none", FALSE)
    ELSE IF in.text = "" THEN PResp(400, "none", FALSE)
    ELSE PCall("openai", FALSE)

\* part_005 lines 1-27: any image string is sent as it is.
Handler_part_005(in) ==
    IF in.method = "OPTIONS" THEN PResp(200, "none", FALSE)
    ELSE IF in.method # "POST" THEN PResp(405, "none", FALSE)
    ELSE IF ~in.body THEN PResp(500, "none", FALSE)
    ELSE IF in.image # "none" THEN PCall("openai", FALSE)
    ELSE IF in.text # "" THEN PCall("openai", FALSE)
    ELSE PResp(400, "none", FALSE)

\* part_006 lines 194-231 (part_007 178-215, 425-469): the text of the uploaded
\* file, or a bracketed error text when it cannot be processed.
FileContent(in) ==
    CASE in.file = "text" -> FileText
      [] in.file = "bad" -> "[Error processing file]"
      [] OTHER -> ""

\* part_006 lines 155-265: the key is checked before the form is parsed.
Handler_part_006b(in) ==
    IF in.method = "OPTIONS" THEN PResp(200, "none", FALSE)
    ELSE IF in.method # "POST" THEN PResp(405, "none", FALSE)
    ELSE IF ~env.apiKey THEN PResp(500, "none", FALSE)
    ELSE IF ~in.body THEN PResp(500, "none", FALSE)
    ELSE IF in.text = "" /\ FileContent(in) = "" THEN PResp(400, "none", FALSE)
    ELSE PCall("openai", FALSE)

\* part_007 lines 157-241.
Handler_part_007a(in) ==
    IF in.method = "OPTIONS" THEN PResp(200, "none", FALSE)
    ELSE IF in.method # "POST" THEN PResp(405, "none", FALSE)
    ELSE IF ~in.body THEN PResp(500, "none", FALSE)
    ELSE IF in.text = "" /\ FileContent(in) = "" THEN PResp(400, "none", FALSE)
    ELSE PCall("openai", FALSE)

\* part_007 lines 390-503.
Handler_part_007b(in) ==
    IF in.method = "OPTIONS" THEN PResp(200, "none", FALSE)
    ELSE IF in.method # "POST" THEN PResp(405, "none", FALSE)
    ELSE IF ~env.apiKey THEN PResp(500, "none", FALSE)
    ELSE IF ~in.body THEN PResp(500, "none", FALSE)
    ELSE IF in.text = "" /\ FileContent(in) = "" THEN PResp(400, "none", FALSE)
    ELSE PCall("openai", FALSE)

\* part_008 lines 9-44: the file is named in the prompt, never read.
Handler_part_008(in) ==
    IF in.method = "OPTIONS" THEN PResp(200, "none", FALSE)
    ELSE IF in.method # "POST" THEN PResp(405, "none", FALSE)
    ELSE IF ~in.body THEN PResp(500, "none", FALSE)
    ELSE IF in.text = "" /\ in.file = "none" THEN PResp(400, "none", FALSE)
    ELSE PCall("openai", FALSE)

\* api/vision3.ts lines 16-57: busboy throws without multipart headers (500).
Handler_vision3(in) ==
    IF in.method # "POST" THEN PResp(405, "none", FALSE)
    ELSE IF ~in.body THEN PResp(500, "none", FALSE)
    ELSE IF in.file = "none" THEN PResp(400, "none", FALSE)
    ELSE PCall("openai", in.cid = "")

\* example.express.ts lines 62-76.
Handler_express_vision(in) ==
    IF ~in.body \/ in.file = "none" THEN PResp(400, "none", FALSE)
    ELSE IF ~env.apiKey THEN PResp(500, "none", FALSE)
    ELSE PCall("openai", in.cid = "")

\* api/api/chat.js line 26: `ageMs > maxAgeMs`.
\* (NeverExpired: a handler that does not look at the age.)
NeverExpired(ageMs) == FALSE
Expired(ageMs) == ageMs > MaxAgeMs

\* api/api/chat.js lines 3-32: the session cookie is checked before the message.
Handler_api_chat(in) ==
    IF in.method # "POST" THEN PResp(405, "none", FALSE)
    ELSE IF in.cookie \in {"none", "empty"} THEN PResp(401, "none", FALSE)
    ELSE IF in.cookie = "nosig" THEN PResp(401, "none", FALSE)
    ELSE IF in.cookie = "badsig" THEN PResp(401, "none", FALSE)
    ELSE IF in.cookie = "badjson" THEN PResp(401, "none", FALSE)
    ELSE IF Expired(in.age) THEN PResp(401, "none", FALSE)
    ELSE IF Field(in, "text") = "" THEN PResp(400, "none", FALSE)
    ELSE PCall("openai", FALSE)

\* api/summarize.js lines 3-11: whatever the body is, it is forwarded.
Handler_summarize(in) ==
    IF in.method = "POST" THEN PCall("hf", FALSE)
    ELSE PResp(405, "none", FALSE)

\* api/login.js lines 3-27: no outbound call on any path.
Handler_login(in) ==
    IF in.method # "POST" THEN PResp(405, "none", FALSE)
    ELSE IF Field(in, "text") = "" THEN PResp(400, "none", FALSE)
    ELSE IF Field(in, "text") # SitePassword THEN PResp(401, "none", FALSE)
    ELSE PResp(200, "none", FALSE)

\* api/ai-request.js lines 1-11: the module has a syntax error; the function
\* fails in the platform for every request, whatever its method, and the code of
\* the handler never runs.
Handler_ai_request(in) == PResp(500, "none", FALSE)

Sync(h, in) ==
    CASE h = "part_000" -> Handler_part_000(in)
      [] h = "express_chat" -> Handler_express_chat(in)
      [] h = "part_001" -> Handler_part_001(in)
      [] h = "detailedsummary" -> Handler_detailedsummary(in)
      [] h = "simplesummary" -> Handler_simplesummary(in)
      [] h = "part_006a" -> Handler_part_006a(in)
      [] h = "chat2" -> Handler_chat2(in)
      [] h = "part_002" -> Handler_part_002(in)
      [] h = "part_003a" -> Handler_part_003a(in)
      [] h = "part_003b" -> Handler_part_003b(in)
      [] h = "part_004" -> Handler_part_004(in)
      [] h = "part_005" -> Handler_part_005(in)
      [] h = "part_006b" -> Handler_part_006b(in)
      [] h = "part_007a" -> Handler_part_007a(in)
      [] h = "part_007b" -> Handler_part_007b(in)
      [] h = "part_008" -> Handler_part_008(in)
      [] h = "vision3" -> Handler_vision3(in)
      [] h = "express_vision" -> Handler_express_vision(in)
      [] h = "api_chat" -> Handler_api_chat(in)
      [] h = "summarize" -> Handler_summarize(in)
      [] h = "login" -> Handler_login(in)
      [] h = "ai_request" -> Handler_ai_request(in)

\* ---------------------------------------------------- after the outbound call
\* up: what the response carries of the upstream answer: "reply" (the content),
\* "fallback" (a fixed text in its place), "body" (the upstream body as received),
\* "msg" (a message derived from the upstream error), "none".

\* api/simplesummary.js lines 33-61: the SDK call resolves or throws; the catch
\* answers 500 with err.message.
SdkResult(o) ==
    CASE o = "ok" -> PResp(200, "reply", FALSE)
      [] o = "ok_empty" -> PResp(200, "fallback", FALSE)
      [] o \in {"err_json", "err_text"} -> PResp(500, "msg", FALSE)
      [] OTHER -> PResp(500, "none", FALSE)

\* part_005 lines 40-48: response.json() and 200, response.ok never read.
FetchNoCheck(o) ==
    CASE o = "ok" -> PResp(200, "reply", FALSE)
      [] o \in {"ok_empty", "err_json"} -> PResp(200, "fallback", FALSE)
      [] OTHER -> PResp(500, "none", FALSE)

\* api/api/chat.js lines 45-50: `content ?? (error.message ?? 'No reply')`, 200.
ApiChatResult(o) ==
    CASE o = "ok" -> PResp(200, "reply", FALSE)
      [] o = "ok_empty" -> PResp(200, "fallback", FALSE)
      [] o = "err_json" -> PResp(200, "msg", FALSE)
      [] OTHER -> PResp(500, "none", FALSE)

\* api/chat2.js lines 228-237: response.json(), then 502 with the body when
\* !response.ok; a body that is not JSON throws into the catch (500).
Checked502(o) ==
    CASE o = "ok" -> PResp(200, "reply", FALSE)
      [] o = "ok_empty" -> PResp(200, "fallback", FALSE)
      [] o = "err_json" -> PResp(502, "body", FALSE)
      [] OTHER -> PResp(500, "none", FALSE)

\* (RetryInline: a caller that sends the image inline again when the analysis fails.)
RetryInline(o) ==
    IF o \in {"ok", "ok_empty"} THEN PResp(200, "reply", FALSE) ELSE PCallImage("inline")
\* api/chat2.js lines 83-122 and 186-207: callOpenAIWithImageUrl throws on
\* !res.ok, on a body that is not JSON and on a failed fetch; the caller answers 502.
ImageResult(o) ==
    CASE o = "ok" -> PResp(200, "reply", FALSE)
      [] o = "ok_empty" -> PResp(200, "fallback", FALSE)
      [] o = "err_json" -> PResp(502, "body", FALSE)
      [] o = "err_text" -> PResp(502, "msg", FALSE)
      [] OTHER -> PResp(502, "none", FALSE)

\* part_006 lines 281-311: !response.ok throws `OpenAI API error: <status> -
\* <message>` into the catch (500).
Throw500(o) ==
    CASE o = "ok" -> PResp(200, "reply", FALSE)
      [] o = "ok_empty" -> PResp(200, "fallback", FALSE)
      [] o \in {"err_json", "err_text"} -> PResp(500, "msg", FALSE)
      [] OTHER -> PResp(500, "none", FALSE)

\* part_002 lines 31-49: the text of the answer, parsed when it parses; 502 with
\* it under details when !hfResponse.ok.
HfResult(o) ==
    CASE o \in {"ok", "ok_empty"} -> PResp(200, "reply", FALSE)
      [] o \in {"err_json", "err_text"} -> PResp(502, "body", FALSE)
      [] OTHER -> PResp(500, "none", FALSE)

\* api/summarize.js lines 12-16: response.json() is answered 200 whatever the
\* upstream status.
Passthrough(o) ==
    CASE o \in {"ok", "ok_empty"} -> PResp(200, "reply", FALSE)
      [] o = "err_json" -> PResp(200, "body", FALSE)
      [] OTHER -> PResp(500, "none", FALSE)

\* api/chat2.js lines 150-207: after the S3 upload, resolved or thrown, the image
\* goes to OpenAI (by presigned URL, or inline); the text path is line 228.
InlineAfterUpload(in, pc, o) ==
    IF pc = "s3" THEN PCallImage("inline")
    ELSE IF in.image = "valid" THEN ImageResult(o)
    ELSE Checked502(o)
After_chat2(in, pc, o) ==
    IF pc = "s3"
    THEN PCallImage(IF o \in {"ok", "ok_empty"} THEN "presigned" ELSE "inline")
    ELSE IF in.image = "valid" THEN ImageResult(o)
    ELSE Checked502(o)

\* part_004 lines 120-150 and 175-188.
After_part_004(in, pc, o) == IF in.image = "valid" THEN ImageResult(o) ELSE Checked502(o)

\* What handler h does when its outbound call ends with outcome o.
After(h, in, pc, o) ==
    CASE h \in {"simplesummary", "part_006a", "vision3", "express_vision"} -> SdkResult(o)
      [] h = "chat2" -> After_chat2(in, pc, o)
      [] h = "part_004" -> After_part_004(in, pc, o)
      [] h = "part_003b" -> Checked502(o)
      [] h \in {"part_003a", "part_005", "part_008"} -> FetchNoCheck(o)
      [] h \in {"part_006b", "part_007a", "part_007b"} -> Throw500(o)
      [] h = "part_002" -> HfResult(o)
      [] h = "summarize" -> Passthrough(o)
      [] h = "api_chat" -> ApiChatResult(o)

\* ------------------------------------------------------------------ the store
\* Each handler file declares its own module-level `conversations` Map.
StoreOfShared(h) == "part_000"
StoreOf(h) == h

\* `conversations.get(newId)`: the stored array, 0 for undefined.
LookupMissing(h, id) == 0
Lookup(h, id) == conversations[StoreOf(h)][id]

\* `conversations.set(newId, history)` on one handler's Map.
MapSetEvicting(m, k, v) == [i \in DOMAIN m |-> IF i = k THEN v ELSE 0]
MapSet(m, k, v) == [m EXCEPT ![k] = v]

Keys(h) == {id \in Ids : conversations[h][id] # 0}

\* Arrays something still refers to; the others are garbage.
Referenced(conv, sl) ==
    {conv[h][id] : h \in StoreHandlers, id \in Ids} \cup {sl[s].arr : s \in Slots}
FreeArrs == ArrIds \ Referenced(conversations, slots)
NewArr == CHOOSE a \in FreeArrs : \A b \in FreeArrs : a <= b
Collect(hp, conv, sl) ==
    [a \in ArrIds |-> IF a \in Referenced(conv, sl) THEN hp[a] ELSE <<>>]

\* Messages in all arrays, and the replies requests in flight will still push.
RECURSIVE SumLen(_, _)
SumLen(hp, as) ==
    IF as = {} THEN 0
    ELSE LET a == CHOOSE x \in as : TRUE IN Len(hp[a]) + SumLen(hp, as \ {a})
Pending == Cardinality({s \in Slots : slots[s].pc = "llm"})
LowestIdle == CHOOSE s \in Slots : slots[s] = Idle /\ \A t \in Slots : slots[t] = Idle => s <= t

\* ------------------------------------------------------------------- actions
Response(h, in, status, up, calls, newId, first, outcome) ==
    [n |-> 1, h |-> h, in |-> in, status |-> status, up |-> up, calls |-> calls,
     newId |-> newId, first |-> first, outcome |-> outcome]

\* The handler answers before any outbound call.
Answer(s, h, in, p) ==
    /\ resp' = Response(h, in, p.status, p.up, 0, "", FALSE, "none")
    /\ out' = NoCall
    /\ UNCHANGED <<conversations, heap, slots, boot>>

\* part_000 lines 24-32 (part_001 28-45, example.express.ts 32-41,
\* detailedsummary.js 97-117): get the history or a new array, push the user
\* message, call the LLM with it.
StartChat(s, h, in, newId) ==
    LET stored == Lookup(h, newId)
        a == IF stored # 0 THEN stored ELSE NewArr
        history == IF stored # 0 THEN heap[stored] ELSE <<>>
        pushed == Append(history, Msg("user", UserContent(h, in)))
        first == boot.h = h /\ newId \in boot.prior
    IN  /\ stored = 0 => FreeArrs # {}
        /\ SumLen(heap, ArrIds) + Pending + 2 <= MaxMsgs
        /\ heap' = [heap EXCEPT ![a] = pushed]
        /\ slots' = [slots EXCEPT ![s] =
                [pc |-> "llm", h |-> h, in |-> in, arr |-> a, newId |-> newId,
                 calls |-> 1, first |-> first]]
        /\ out' = [target |-> "openai", h |-> h, in |-> in, newId |-> newId,
                   first |-> first, messages |-> SystemOf(h) \o pushed]
        /\ resp' = NoResp
        /\ boot' = (IF boot.h = h THEN NoBoot ELSE boot)
        /\ UNCHANGED conversations

\* A handler without a store issues its outbound call, the n-th of the request;
\* after: how the call before it ended ("none" for the first).
Call(s, h, in, p, newId, n, after) ==
    /\ slots' = [slots EXCEPT ![s] =
            [pc |-> (IF p.target = "s3" THEN "s3" ELSE "call"), h |-> h, in |-> in,
             arr |-> 0, newId |-> newId, calls |-> n, first |-> FALSE]]
    /\ out' = [target |-> p.target, h |-> h, in |-> in, newId |-> newId,
               first |-> FALSE, messages |-> <<>>, url |-> p.url, after |-> after]
    /\ resp' = NoResp
    /\ UNCHANGED <<conversations, heap, boot>>

\* The handler is left waiting on a promise nothing will settle.
Lose(s, h, in) ==
    /\ slots' = [slots EXCEPT ![s] =
            [pc |-> "lost", h |-> h, in |-> in, arr |-> 0, newId |-> "",
             calls |-> 0, first |-> FALSE]]
    /\ out' = NoCall
    /\ resp' = NoResp
    /\ UNCHANGED <<conversations, heap, boot>>

\* A request arrives at handler h and runs to its first outbound call.
Receive(s, h, in) ==
    /\ slots[s] = Idle
    /\ s = LowestIdle
    /\ LET p == Sync(h, in)
       IN  \E u \in (IF p.draw THEN UUIDs \ issued ELSE {""}) :
            /\ issued' = (IF p.draw THEN issued \cup {u} ELSE issued)
            /\ act' = [name |-> "receive", h |-> h]
            /\ CASE p.k = "resp" -> Answer(s, h, in, p)
                 [] p.k = "chat" -> StartChat(s, h, in, IF p.cid # "" THEN p.cid ELSE u)
                 [] p.k = "call" -> Call(s, h, in, p, IF in.cid # "" THEN in.cid ELSE u, 1, "none")
                 [] p.k = "lost" -> Lose(s, h, in)
    /\ UNCHANGED env

\* part_000 lines 34-45: the completion resolves (push the reply, set, answer
\* 200) or openai.chat.completions.create throws (answer 500).
FinishChat(s, o) ==
    LET r == slots[s]
        ok == o \in {"ok", "ok_empty"}
        hp == IF ok
              THEN [heap EXCEPT ![r.arr] =
                        Append(@, Msg("assistant", AssistantText(r.h, o)))]
              ELSE heap
        conv == IF ok
                THEN [conversations EXCEPT
                        ![StoreOf(r.h)] = MapSet(@, r.newId, r.arr)]
                ELSE conversations
        sl == [slots EXCEPT ![s] = Idle]
    IN  /\ conversations' = conv
        /\ slots' = sl
        /\ heap' = Collect(hp, conv, sl)
        /\ resp' = IF ok
                   THEN Response(r.h, r.in, 200, "reply", r.calls, r.newId, r.first, o)
                   ELSE Response(r.h, r.in, 500,
                                 IF o = "err_json" THEN "msg"
                                 ELSE IF o = "err_text" THEN "status" ELSE "none",
                                 r.calls, "", r.first, o)
        /\ out' = NoCall
        /\ UNCHANGED boot

\* The outbound call of a handler without a store ends: the handler answers, or
\* issues its next call.
FinishCall(s, o) ==
    LET r == slots[s]
        p == After(r.h, r.in, r.pc, o)
    IN  IF p.k = "call"
        THEN Call(s, r.h, r.in, p, r.newId, r.calls + 1, o)
        ELSE /\ slots' = [slots EXCEPT ![s] = Idle]
             /\ resp' = Response(r.h, r.in, p.status, p.up, r.calls,
                                 IF p.status = 200 THEN r.newId ELSE "", FALSE, o)
             /\ out' = NoCall
             /\ UNCHANGED <<conversations, heap, boot>>

\* The outbound call of the request in slot s ends with outcome o.
Complete(s, o) ==
    /\ slots[s].pc \in {"llm", "call", "s3"}
    /\ act' = [name |-> "complete", h |-> slots[s].h]
    /\ IF slots[s].pc = "llm" THEN FinishChat(s, o) ELSE FinishCall(s, o)
    /\ UNCHANGED <<env, issued>>

\* The module of handler h is loaded again: `const conversations = new Map()`.
\* (SurvivingMap: a store that outlives the process.)
SurvivingMap(h) == conversations[h]
ReloadedMap(h) == [id \in Ids |-> 0]

\* The process of store handler h restarts: its Map starts empty again and the
\* requests it was serving are gone.
Restart(h) ==
    LET conv == [conversations EXCEPT ![h] = ReloadedMap(h)]
        sl == [s \in Slots |-> IF slots[s].h = h THEN Idle ELSE slots[s]]
    IN  /\ Keys(h) # {}
        /\ conversations' = conv
        /\ slots' = sl
        /\ heap' = Collect(heap, conv, sl)
        /\ boot' = [h |-> h, prior |-> Keys(h)]
        /\ act' = [name |-> "restart", h |-> h]
        /\ out' = NoCall
        /\ resp' = NoResp
        /\ UNCHANGED <<env, issued>>

Init ==
    /\ conversations = [h \in StoreHandlers |-> [id \in Ids |-> 0]]
    /\ heap = [a \in ArrIds |-> <<>>]
    /\ slots = [s \in Slots |-> Idle]
    /\ env \in {[apiKey |-> k, aws |-> FALSE] : k \in BOOLEAN}
    /\ issued = {}
    /\ boot = NoBoot
    /\ act = [name |-> "init", h |-> ""]
    /\ out = NoCall
    /\ resp = NoResp

Next ==
    \/ \E s \in Slots, h \in StoreHandlers : \E in \in ChatInputsOf(h) : Receive(s, h, in)
    \/ \E s \in Slots, o \in ChatOutcomes : Complete(s, o)
    \/ \E h \in StoreHandlers : Restart(h)

Spec == Init /\ [][Next]_vars

\* ------------------------------------------- all handlers, one request at a time
\* Every handler, every kind of request and every outcome of the outbound call;
\* the AWS variables of api/chat2.js are set or not.
InitHttp ==
    /\ conversations = [h \in StoreHandlers |-> [id \in Ids |-> 0]]
    /\ heap = [a \in ArrIds |-> <<>>]
    /\ slots = [s \in Slots |-> Idle]
    /\ env \in {[apiKey |-> k, aws |-> a] : k \in BOOLEAN, a \in BOOLEAN}
    /\ issued = {}
    /\ boot = NoBoot
    /\ act = [name |-> "init", h |-> ""]
    /\ out = NoCall
    /\ resp = NoResp

Awaiting == {s \in Slots : slots[s].pc \in {"llm", "call", "s3"}}

\* The requests to handler h: all that answer before any store access, and one
\* chat on a client's conversationId; requests that make uuidv4() run are left
\* to Spec.
HttpInputsOf(h) ==
    IF h \in StoreHandlers
    THEN {in \in InputsOf(h) : Sync(h, in).k = "resp" /\ ~Sync(h, in).draw}
         \cup {[Blank EXCEPT !.text = "m1", !.cid = c] : c \in ClientIds}
    ELSE {in \in InputsOf(h) : ~Sync(h, in).draw}

NextHttp ==
    \/ \E s \in Slots, h \in Handlers : \E in \in HttpInputsOf(h) :
            /\ Awaiting = {}
            /\ Sync(h, in).k = "chat" => SumLen(heap, ArrIds) + 2 <= MaxHttpMsgs
            /\ Receive(s, h, in)
    \/ \E s \in Slots, o \in Outcomes : Complete(s, o)

SpecHttp == InitHttp /\ [][NextHttp]_vars

\* ---------------------------------------------- the document upload handlers
\* The second handlers of part_006 and part_007, the first of part_007 and
\* api/detailedsummary.js, followed through the multipart form, the temporary
\* file and the text sent to the LLM.
DocHandlers == {"part_006b", "part_007a", "part_007b", "detailedsummary"}

\* A text too long to spell out is the sequence of its parts, each with its
\* length in UTF-16 units: a literal of the code, or a part taken from the request.
Lit(s) == [t |-> s, n |-> Len(s)]
Part(t, n) == [t |-> t, n |-> n]

RECURSIVE Length(_)
\* `.length`
Length(str) == IF str = <<>> THEN 0 ELSE Head(str).n + Length(Tail(str))

\* (Whole: a handler that sends the text at any length.)
Whole(str, k) == str
RECURSIVE Substring(_, _)
\* `.substring(0, k)`
Substring(str, k) ==
    IF str = <<>> \/ k <= 0 THEN <<>>
    ELSE IF Head(str).n <= k
         THEN <<Head(str)>> \o Substring(Tail(str), k - Head(str).n)
         ELSE <<Part(Head(str).t, k)>>

\* A file name is the sequence of its characters.
UpperCase == <<"A", "B", "C", "D", "E", "F", "G", "H", "I", "J", "K", "L", "M",
               "N", "O", "P", "Q", "R", "S", "T", "U", "V", "W", "X", "Y", "Z">>
LowerCase == <<"a", "b", "c", "d", "e", "f", "g", "h", "i", "j", "k", "l", "m",
               "n", "o", "p", "q", "r", "s", "t", "u", "v", "w", "x", "y", "z">>
\* (KeepCase: an extension compared as the client wrote it.)
KeepCase(name) == name
\* `.toLowerCase()`
ToLowerCase(name) ==
    [i \in DOMAIN name |->
        IF \E j \in DOMAIN UpperCase : UpperCase[j] = name[i]
        THEN LowerCase[CHOOSE j \in DOMAIN UpperCase : UpperCase[j] = name[i]]
        ELSE name[i]]

\* `path.extname(fileName)`: from the last dot of the name to its end; nothing
\* when there is no dot or the only dot leads the name.
LastDot(name) ==
    IF \E i \in DOMAIN name : name[i] = "."
    THEN CHOOSE i \in DOMAIN name :
            name[i] = "." /\ \A j \in DOMAIN name : name[j] = "." => j <= i
    ELSE 0
Extname(name) ==
    IF LastDot(name) <= 1 THEN <<>> ELSE SubSeq(name, LastDot(name), Len(name))

\* The extensions the handlers name.
Ext(e) ==
    CASE e = "pdf" -> <<".", "p", "d", "f">>
      [] e = "txt" -> <<".", "t", "x", "t">>
      [] e = "doc" -> <<".", "d", "o", "c">>
      [] e = "docx" -> <<".", "d", "o", "c", "x">>
      [] e = "xls" -> <<".", "x", "l", "s">>
      [] e = "xlsx" -> <<".", "x", "l", "s", "x">>
      [] e = "csv" -> <<".", "c", "s", "v">>
      [] e = "html" -> <<".", "h", "t", "m", "l">>
      [] e = "htm" -> <<".", "h", "t", "m">>
      [] e = "md" -> <<".", "m", "d">>
      [] e = "rtf" -> <<".", "r", "t", "f">>
      [] e = "json" -> <<".", "j", "s", "o", "n">>
      [] e = "xml" -> <<".", "x", "m", "l">>
Exts(es) == {Ext(e) : e \in es}

\* The original file names of the uploads; the empty one is a part without name.
FileNames ==
    {<<"a", ".", "p", "d", "f">>, <<"a", ".", "P", "D", "F">>,
     <<"a", ".", "t", "x", "t">>, <<"a", ".", "T", "x", "t">>,
     <<"a", ".", "d", "o", "c">>, <<"a", ".", "b", "i", "n">>,
     <<"a", ".", "x", ".", "m", "d">>, <<".", "t", "x", "t">>, <<"a">>, <<>>}
\* `uploadedFile.mimetype`, as the client declared it.
MimeTypes == {"application/pdf", "text/plain"}

\* The lengths of a short and of a long text, and of the message of an error a
\* library throws.
ShortLen == 5
LongLen == 20000
LibMessageLen == 10

\* The bytes of an upload, by what the code can make of them.  utf8: decoded as
\* text they are a text with spaces and line ends ("text", "long"), a few
\* characters without either ("token"), or nothing ("empty").  lib: the parsing
\* library of the branch (pdf-parse, mammoth, XLSX) returns a text ("ok"), an
\* empty text ("blank"), or throws.
FileBytes ==
    {[utf8 |-> "text", lib |-> "ok"], [utf8 |-> "text", lib |-> "blank"],
     [utf8 |-> "text", lib |-> "throw"], [utf8 |-> "long", lib |-> "ok"],
     [utf8 |-> "token", lib |-> "throw"], [utf8 |-> "empty", lib |-> "throw"]}

\* An uploaded document: `files.file`.  Every name comes with every kind of
\* bytes, and with every declared type for one kind of bytes.
Doc(n, m, b) == [name |-> n, mime |-> m, utf8 |-> b.utf8, lib |-> b.lib]
Docs ==
    {Doc(n, "text/plain", b) : n \in FileNames, b \in FileBytes}
    \cup {Doc(n, m, [utf8 |-> "text", lib |-> "ok"]) : n \in FileNames, m \in MimeTypes}
\* The documents sent along with a message.
DocsWithMessage == {d \in Docs : d.mime = "text/plain" /\ d.utf8 = "text" /\ d.lib = "ok"}
NoDoc == [name |-> <<>>, mime |-> "", utf8 |-> "none", lib |-> "none"]

\* `fileBuffer.toString('utf8')`, `iconv.decode(fileBuffer, encoding)` on bytes
\* without byte order mark.
Decoded(d) ==
    CASE d.utf8 = "text" -> <<Part("file", ShortLen)>>
      [] d.utf8 = "long" -> <<Part("file", LongLen)>>
      [] d.utf8 = "token" -> <<Part("file", 3)>>
      [] OTHER -> <<>>
\* `content.includes('\n') || content.includes(' ')`
LooksLikeText(d) == d.utf8 \in {"text", "long"}
\* The text the parsing library returns.
Extracted(d) == IF d.lib = "ok" THEN <<Part("extracted", Length(Decoded(d)))>> ELSE <<>>
LibMessage == <<Part("error.message", LibMessageLen)>>
NameText(fileName) == IF fileName = <<>> THEN <<>> ELSE <<Part("fileName", Len(fileName))>>
ExtText(ext) == IF ext = <<>> THEN <<>> ELSE <<Part("fileExtension", Len(ext))>>

\* What processFile does: it returns a content and a type from one branch of its
\* switch, or throws a message from it.
Returned(branch, content, type) ==
    [branch |-> branch, thrown |-> FALSE, content |-> content, type |-> type]
Thrown(branch, message) ==
    [branch |-> branch, thrown |-> TRUE, content |-> message, type |-> <<>>]
\* The outer catch of processFile puts its own text before the message.
Rethrown(r, prefix) == IF r.thrown THEN [r EXCEPT !.content = prefix \o @] ELSE r
\* The result of a parsing library as the content of the file.
Parsed(branch, d, type) ==
    IF d.lib = "throw" THEN Thrown(branch, LibMessage)
    ELSE Returned(branch, Extracted(d), type)

\* part_006 lines 76-153
processFile_006(fileName, d) ==
    LET fileExtension == ToLowerCase(Extname(fileName))
    IN  CASE fileExtension \in Exts({"txt", "md", "csv", "json", "html", "htm", "xml"}) ->
                Returned("text", Decoded(d), ExtText(fileExtension) \o <<Lit(" File")>>)
          [] fileExtension = Ext("pdf") ->
                Returned("pdf",
                    <<Lit("[PDF File: ")>> \o NameText(fileName)
                    \o <<Lit(" - PDF processing temporarily disabled for debugging. Please convert to text and try again.]")>>,
                    <<Lit("PDF Document (Not processed)")>>)
          [] fileExtension \in Exts({"docx", "doc"}) ->
                Returned("word",
                    <<Lit("[Word Document: ")>> \o NameText(fileName)
                    \o <<Lit(" - Word processing temporarily disabled for debugging. Please copy and paste the text content.]")>>,
                    <<Lit("Word Document (Not processed)")>>)
          [] fileExtension \in Exts({"xlsx", "xls"}) ->
                Returned("excel",
                    <<Lit("[Excel File: ")>> \o NameText(fileName)
                    \o <<Lit(" - Excel processing temporarily disabled for debugging. Please export to CSV and try again.]")>>,
                    <<Lit("Excel Spreadsheet (Not processed)")>>)
          [] OTHER ->
                IF LooksLikeText(d)
                THEN Returned("default", Decoded(d),
                        <<Lit("Unknown Text File (")>> \o ExtText(fileExtension) \o <<Lit(")")>>)
                ELSE Thrown("default",
                        <<Lit("Unsupported file type: ")>> \o ExtText(fileExtension)
                        \o <<Lit(". Supported types: .txt, .md, .csv, .json, .html, .xml")>>)

\* part_007 lines 36-155; mimeType is a parameter the body never reads.
processFile_007a(fileName, mimeType, d) ==
    LET fileExtension == ToLowerCase(Extname(fileName))
        text == Decoded(d)
        r == CASE fileExtension = Ext("pdf") -> Parsed("pdf", d, <<Lit("PDF Document")>>)
               [] fileExtension \in Exts({"docx", "doc"}) ->
                    Parsed("word", d, <<Lit("Word Document")>>)
               [] fileExtension \in Exts({"xlsx", "xls"}) ->
                    IF d.lib = "throw" THEN Thrown("excel", LibMessage)
                    ELSE Returned("excel",
                            <<Lit("Sheet: "), Part("sheetName", 6), Lit("\n")>>
                            \o Extracted(d) \o <<Lit("\n\n")>>,
                            <<Lit("Excel Spreadsheet")>>)
               [] fileExtension = Ext("csv") -> Returned("csv", text, <<Lit("CSV File")>>)
               [] fileExtension \in Exts({"html", "htm"}) ->
                    Returned("html", text, <<Lit("HTML Document")>>)
               [] fileExtension = Ext("md") ->
                    Returned("md", text \o <<Lit("\n\n--- Rendered as: ---\n")>> \o text,
                             <<Lit("Markdown Document")>>)
               [] fileExtension \in Exts({"txt", "rtf"}) \cup {<<>>} ->
                    Returned("text", text, <<Lit("Text Document")>>)
               [] fileExtension = Ext("json") ->
                    Returned("json", text,
                             <<Lit("JSON File (Invalid format, showing raw content)")>>)
               [] fileExtension = Ext("xml") ->
                    Returned("xml",
                             <<Lit("XML Content:\n")>> \o text
                             \o <<Lit("\n\n--- Text Content: ---\n")>> \o text,
                             <<Lit("XML Document")>>)
               [] OTHER ->
                    Returned("default", text,
                             <<Lit("Unknown File Type (")>> \o ExtText(fileExtension)
                             \o <<Lit(")")>>)
    IN  Rethrown(r, <<Lit("Failed to process ")>> \o ExtText(fileExtension)
                    \o <<Lit(" file: ")>>)

\* part_007 lines 288-388
processFile_007b(fileName, d) ==
    LET fileExtension == ToLowerCase(Extname(fileName))
    IN  CASE fileExtension = Ext("pdf") ->
                IF d.lib = "ok" THEN Returned("pdf", Extracted(d), <<Lit("PDF Document")>>)
                ELSE IF d.lib = "blank"
                THEN Thrown("pdf", <<Lit("This PDF contains no text (likely scanned images). Please use OCR or provide a text-based PDF.")>>)
                ELSE Thrown("pdf", <<Lit("PDF processing failed: ")>> \o LibMessage)
          [] fileExtension \in Exts({"txt", "md", "csv", "json", "html", "htm", "xml"}) ->
                Returned("text", Decoded(d),
                         <<Part("EXT", Len(fileExtension) - 1), Lit(" File")>>)
          [] fileExtension \in Exts({"docx", "doc"}) ->
                Returned("word",
                    <<Lit("[Word Document: ")>> \o NameText(fileName)
                    \o <<Lit(" - Word processing not yet enabled. Please export to PDF or copy/paste the text content.]")>>,
                    <<Lit("Word Document (Not processed)")>>)
          [] fileExtension \in Exts({"xlsx", "xls"}) ->
                Returned("excel",
                    <<Lit("[Excel File: ")>> \o NameText(fileName)
                    \o <<Lit(" - Excel processing not yet enabled. Please export to CSV and try again.]")>>,
                    <<Lit("Excel Spreadsheet (Not processed)")>>)
          [] OTHER ->
                IF Length(Decoded(d)) > 0 /\ (LooksLikeText(d) \/ Length(Decoded(d)) < 10000)
                THEN Returned("default", Decoded(d),
                        <<Lit("Unknown Text File (")>>
                        \o (IF fileExtension = <<>> THEN <<Lit("no extension")>>
                            ELSE ExtText(fileExtension))
                        \o <<Lit(")")>>)
                ELSE Thrown("default",
                        <<Lit("Unsupported file type: ")>>
                        \o (IF fileExtension = <<>> THEN <<Lit("no extension")>>
                            ELSE ExtText(fileExtension))
                        \o <<Lit(". Supported types: .pdf, .txt, .md, .csv, .json, .html, .xml")>>)

\* api/detailedsummary.js lines 23-43
extractTextFromFile(filename, d) ==
    LET ext == ToLowerCase(Extname(filename))
        r == CASE ext = Ext("pdf") -> Parsed("pdf", d, <<>>)
               [] ext = Ext("txt") -> Returned("text", Decoded(d), <<>>)
               [] ext \in Exts({"doc", "docx"}) ->
                    Thrown("word", <<Lit("Word document processing not implemented yet. Please convert to PDF or plain text.")>>)
               [] OTHER ->
                    Thrown("default", <<Lit("Unsupported file format: ")>> \o ExtText(ext))
    IN  Rethrown(r, <<Lit("Failed to extract text from file: ")>>)

\* A multipart request to a document handler: the message field of part_006 and
\* part_007 (a text of some length, empty when absent), the text and
\* conversationId fields of detailedsummary.js, and the file part.
DocBlank ==
    [method |-> "POST", body |-> TRUE, text |-> "", cid |-> "", message |-> <<>>,
     doc |-> NoDoc]

\* part_006 line 247, part_007 lines 228 and 485: `const maxLength`.
MaxLengthOf(h) == IF h = "part_006b" THEN 8000 ELSE 12000
\* part_006 line 249, part_007 lines 230 and 488: the notice put after a cut.
NoticeOf(h) ==
    IF h = "part_007b"
    THEN "\n\n[Content truncated due to length limitations. This represents the first part of the document.]"
    ELSE "\n\n[Content truncated due to length...]"

\* The documents sent along with a message at the length limit.
LongDocs ==
    {[name |-> <<"a", ".", "t", "x", "t">>, mime |-> "text/plain", utf8 |-> u, lib |-> "throw"] :
        u \in {"text", "long"}}

\* The requests to document handler h.  detailedsummary.js gets a
\* conversationId of the client, so that uuidv4() does not run.
DocInputsOf(h) ==
    {[DocBlank EXCEPT !.method = m, !.body = FALSE] : m \in {"GET", "OPTIONS", "POST"}}
    \cup (IF h = "detailedsummary"
          THEN {[DocBlank EXCEPT !.cid = c, !.doc = d] :
                    c \in ClientIds, d \in Docs \cup {NoDoc}}
               \cup {[DocBlank EXCEPT !.text = "m1", !.cid = c, !.doc = d] :
                        c \in ClientIds, d \in DocsWithMessage \cup {NoDoc}}
          ELSE {[DocBlank EXCEPT !.doc = d] : d \in Docs \cup {NoDoc}}
               \cup {[DocBlank EXCEPT !.message = <<Part("message", 2)>>, !.doc = d] :
                        d \in DocsWithMessage \cup {NoDoc}}
               \cup {[DocBlank EXCEPT !.message = <<Part("message", n)>>, !.doc = d] :
                        n \in {MaxLengthOf(h), MaxLengthOf(h) + 1},
                        d \in LongDocs \cup {NoDoc}})

\* part_006 lines 155-183 (part_007 157-172, 390-418; detailedsummary.js 63-73):
\* the handler up to `form.parse(req)`.
UploadSync(h, in) ==
    IF h # "detailedsummary" /\ in.method = "OPTIONS" THEN PResp(200, "none", FALSE)
    ELSE IF in.method # "POST" THEN PResp(405, "none", FALSE)
    ELSE IF h # "part_007a" /\ ~env.apiKey THEN PResp(500, "none", FALSE)
    ELSE [k |-> "parse"]

\* `uploadedFile.originalFilename || 'unknown'` (detailedsummary.js: `|| ''`)
FileNameOf(h, d) ==
    IF d.name = <<>> /\ h # "detailedsummary"
    THEN <<"u", "n", "k", "n", "o", "w", "n">>
    ELSE d.name

\* The call of processFile / extractTextFromFile the handler makes.
Processed(h, d) ==
    CASE h = "part_006b" -> processFile_006(FileNameOf(h, d), d)
      [] h = "part_007a" -> processFile_007a(FileNameOf(h, d), d.mime, d)
      [] h = "part_007b" -> processFile_007b(FileNameOf(h, d), d)
      [] h = "detailedsummary" -> extractTextFromFile(FileNameOf(h, d), d)

\* (NoFileContent: a handler that drops the file when its conversion throws.)
NoFileContent(h, d, r) == IF r.thrown THEN <<>> ELSE r.content
\* part_006 lines 206-222 (part_007 188-204, 439-460): fileContent, the text of
\* the file or a bracketed text with the error.
FileContentOf(h, d, r) ==
    IF ~r.thrown THEN r.content
    ELSE IF h = "part_007b"
    THEN <<Lit("[Error processing file: ")>> \o NameText(FileNameOf(h, d))
         \o <<Lit("]\n\n")>> \o r.content
    ELSE <<Lit("[Error processing file: ")>> \o NameText(FileNameOf(h, d))
         \o <<Lit(" - ")>> \o r.content \o <<Lit("]")>>

\* fileInfo: name, size in MB with two decimals, type, and the page or sheet count.
FileInfoOf(h, d, r) ==
    <<Lit("File: ")>> \o NameText(FileNameOf(h, d))
    \o <<Lit(" ("), Part("fileSize", 4), Lit(" MB, ")>>
    \o (IF ~r.thrown THEN r.type
        ELSE IF h = "part_007b" THEN <<Lit("Processing Error")>> ELSE <<Lit("Error")>>)
    \o <<Lit(")")>>
    \o (IF ~r.thrown /\ r.branch = "pdf" /\ h \in {"part_007a", "part_007b"}
        THEN <<Lit(" - "), Part("pages", 1), Lit(" pages")>>
        ELSE IF ~r.thrown /\ r.branch = "excel" /\ h = "part_007a"
        THEN <<Lit(" - "), Part("sheets", 1), Lit(" sheets")>>
        ELSE <<>>)

\* part_006 lines 234-244 (part_007 216-225, 472-482): finalMessage, empty when
\* there is neither message nor file content.
FinalMessage(h, message, fileInfo, fileContent) ==
    IF Length(message) > 0 /\ Length(fileContent) > 0
    THEN IF h = "part_007b"
         THEN <<Lit("User request: ")>> \o message
              \o <<Lit("\n\n--- File Information ---\n")>> \o fileInfo
              \o <<Lit("\n\n--- File Content ---\n")>> \o fileContent
         ELSE <<Lit("User message: ")>> \o message \o <<Lit("\n\n")>> \o fileInfo
              \o <<Lit("\nFile content:\n")>> \o fileContent
    ELSE IF Length(message) > 0 THEN message
    ELSE IF Length(fileContent) > 0
    THEN IF h = "part_007b"
         THEN <<Lit("Please analyze and summarize this uploaded file:\n\n--- File Information ---\n")>>
              \o fileInfo \o <<Lit("\n\n--- Content ---\n")>> \o fileContent
         ELSE <<Lit("Please analyze and summarize this file:\n")>> \o fileInfo
              \o <<Lit("\n\nContent:\n")>> \o fileContent
    ELSE <<>>

\* part_006 lines 247-251 (part_007 228-231, 485-489)
Truncated(h, finalMessage) ==
    IF Length(finalMessage) > MaxLengthOf(h)
    THEN Substring(finalMessage, MaxLengthOf(h)) \o <<Lit(NoticeOf(h))>>
    ELSE finalMessage

\* The system message of the document handlers.
DocSystem(h) ==
    CASE h = "part_006b" -> "You are an AI assistant that analyzes and summarizes documents. Provide clear, detailed summaries that capture the key points, structure, and important information. If the content is too short to summarize meaningfully, explain what the document contains instead."
      [] h = "part_007a" -> "You are an AI assistant that analyzes and summarizes documents. Provide clear, detailed summaries that capture the key points, structure, and important information. If the content is too short to summarize meaningfully, explain what the document contains instead. For data files (CSV, Excel), highlight key patterns or insights. For code files, explain functionality."
      [] h = "part_007b" -> "You are a professional document analysis assistant. When analyzing uploaded files, provide comprehensive summaries that include: 1) Document type and basic info, 2) Main topics and key points, 3) Structure and organization, 4) Important details, data, or conclusions, 5) Any notable insights. Be thorough but concise. If the document is too short to summarize, describe its contents instead."

\* The request of detailedsummary.js as its chat sees it once the file is read.
FormOf(in, extracted) ==
    [Blank EXCEPT !.text = in.text, !.cid = in.cid,
                  !.file = IF in.doc = NoDoc THEN "none"
                           ELSE IF Length(extracted) > 0 THEN "text" ELSE "empty"]

\* The handler goes on after the file: part_006 lines 233-277 (part_007 215-252,
\* 471-515) answer 400 or send the final message to OpenAI; detailedsummary.js
\* lines 93-117 answers 400 or enters its chat.
Continue(s, h, in, fileInfo, fileContent) ==
    IF h = "detailedsummary"
    THEN IF IsBlank(TextToAnalyze(FormOf(in, fileContent)))
         THEN /\ slots' = [slots EXCEPT ![s] = Idle]
              /\ resp' = Response(h, in, 400, "none", 0, "", FALSE, "none")
              /\ out' = NoCall
              /\ UNCHANGED <<conversations, heap, boot>>
         ELSE StartChat(s, h, FormOf(in, fileContent), in.cid)
    ELSE LET finalMessage == FinalMessage(h, in.message, fileInfo, fileContent)
         IN  IF finalMessage = <<>>
             THEN /\ slots' = [slots EXCEPT ![s] = Idle]
                  /\ resp' = Response(h, in, 400, "none", 0, "", FALSE, "none")
                  /\ out' = NoCall
                  /\ UNCHANGED <<conversations, heap, boot>>
             ELSE /\ slots' = [slots EXCEPT ![s] =
                        [pc |-> "call", h |-> h, in |-> in, arr |-> 0, newId |-> "",
                         calls |-> 1, first |-> FALSE]]
                  /\ out' = [target |-> "openai", h |-> h, in |-> in, newId |-> "",
                             first |-> FALSE,
                             messages |-> <<Msg("system", DocSystem(h)),
                                            Msg("user", Truncated(h, finalMessage))>>,
                             url |-> "none", after |-> "none",
                             finalMessage |-> finalMessage]
                  /\ resp' = NoResp
                  /\ UNCHANGED <<conversations, heap, boot>>

\* A request arrives at document handler h and runs up to `await form.parse(req)`.
UploadReceive(s, h, in) ==
    /\ slots[s] = Idle
    /\ s = LowestIdle
    /\ act' = [name |-> "receive", h |-> h]
    /\ IF UploadSync(h, in).k = "resp"
       THEN Answer(s, h, in, UploadSync(h, in))
       ELSE /\ slots' = [slots EXCEPT ![s] =
                    [pc |-> "parse", h |-> h, in |-> in, arr |-> 0, newId |-> "",
                     calls |-> 0, first |-> FALSE]]
            /\ out' = NoCall
            /\ resp' = NoResp
            /\ UNCHANGED <<conversations, heap, boot>>
    /\ UNCHANGED <<env, issued>>

\* form.parse settles.  It rejects and the catch answers 500; or it resolves:
\* an uploaded file is now in the temporary directory and processFile is
\* awaited; without a file the handler goes on.
UploadParsed(s) ==
    LET r == slots[s]
    IN  /\ r.pc = "parse"
        /\ act' = [name |-> "parsed", h |-> r.h]
        /\ IF ~r.in.body
           THEN /\ slots' = [slots EXCEPT ![s] = Idle]
                /\ resp' = Response(r.h, r.in, 500, "none", 0, "", FALSE, "none")
                /\ out' = NoCall
                /\ UNCHANGED <<conversations, heap, boot>>
           ELSE IF r.in.doc = NoDoc
           THEN Continue(s, r.h, r.in, <<>>, <<>>)
           ELSE /\ slots' = [slots EXCEPT ![s] = [r EXCEPT !.pc = "file"]]
                /\ out' = NoCall
                /\ resp' = NoResp
                /\ UNCHANGED <<conversations, heap, boot>>
        /\ UNCHANGED <<env, issued>>

\* `fs.unlinkSync` is reached: part_006 lines 213 and 226, part_007 lines 199,
\* 208, 451 and 464 on both ways out of processFile; detailedsummary.js line 87
\* only after extractTextFromFile has returned.
Unlinks(h, r) == h # "detailedsummary" \/ ~r.thrown

\* processFile settles: part_006 lines 204-231 (part_007 186-213, 437-469,
\* detailedsummary.js 82-90).  The step records the branch taken, whether it
\* threw, and whether the temporary file was deleted.
UploadExtract(s) ==
    LET q == slots[s]
        d == q.in.doc
        r == Processed(q.h, d)
    IN  /\ q.pc = "file"
        /\ act' = [name |-> "extract", h |-> q.h, doc |-> d, branch |-> r.branch,
                   thrown |-> r.thrown, unlinked |-> Unlinks(q.h, r)]
        /\ IF q.h = "detailedsummary" /\ r.thrown
           THEN /\ slots' = [slots EXCEPT ![s] = Idle]
                /\ resp' = Response(q.h, q.in, 400, "msg", 0, "", FALSE, "none")
                /\ out' = NoCall
                /\ UNCHANGED <<conversations, heap, boot>>
           ELSE Continue(s, q.h, q.in, FileInfoOf(q.h, d, r), FileContentOf(q.h, d, r))
        /\ UNCHANGED <<env, issued>>

NextUpload ==
    \/ \E s \in Slots, h \in DocHandlers : \E in \in DocInputsOf(h) :
            /\ \A t \in Slots : slots[t] = Idle
            /\ h = "detailedsummary" => SumLen(heap, ArrIds) + 2 <= MaxHttpMsgs
            /\ UploadReceive(s, h, in)
    \/ \E s \in Slots : UploadParsed(s)
    \/ \E s \in Slots : UploadExtract(s)
    \/ \E s \in Slots, o \in Outcomes : Complete(s, o)

SpecUpload == Init /\ [][NextUpload]_vars

\* ------------------------------------------------------- encoding detection
\* part_007 lines 21-33 on its own: a buffer is drawn and detectEncoding is
\* applied to it.
MaxBufLen == 3
\* The bytes of the byte order marks (EF BB BF, FF FE, FE FF) and a letter.
Bytes == {239, 187, 191, 255, 254, 65}
RECURSIVE BuffersOf(_)
BuffersOf(n) ==
    IF n = 0 THEN {<<>>}
    ELSE BuffersOf(n - 1)
         \cup {Append(b, x) : b \in {c \in BuffersOf(n - 1) : Len(c) = n - 1}, x \in Bytes}
Buffers == BuffersOf(MaxBufLen)

\* `buffer[i]`: the byte at offset i, -1 for undefined past the end.
At(buffer, i) == IF i < Len(buffer) THEN buffer[i + 1] ELSE -1

\* (FirstByteOnly: a detection that looks at the first byte alone.)
FirstByteOnly(buffer) ==
    IF At(buffer, 0) = 255 THEN "utf16le"
    ELSE IF At(buffer, 0) = 254 THEN "utf16be"
    ELSE "utf8"
\* part_007 lines 21-33
detectEncoding(buffer) ==
    IF At(buffer, 0) = 239 /\ At(buffer, 1) = 187 /\ At(buffer, 2) = 191 THEN "utf8"
    ELSE IF At(buffer, 0) = 255 /\ At(buffer, 1) = 254 THEN "utf16le"
    ELSE IF At(buffer, 0) = 254 /\ At(buffer, 1) = 255 THEN "utf16be"
    ELSE "utf8"

\* The file of an upload to the first handler of part_007 has been read.
InitEncoding ==
    /\ conversations = [h \in StoreHandlers |-> [id \in Ids |-> 0]]
    /\ heap = [a \in ArrIds |-> <<>>]
    /\ slots = [s \in Slots |-> Idle]
    /\ env \in {[apiKey |-> k, aws |-> FALSE] : k \in BOOLEAN}
    /\ issued = {}
    /\ boot = NoBoot
    /\ act \in {[name |-> "readFileSync", h |-> "part_007a", buffer |-> b] : b \in Buffers}
    /\ out = NoCall
    /\ resp = NoResp

\* part_007 lines 75, 84, 94, 106, 114, 130, 141: `detectEncoding(fileBuffer)`.
DetectEncoding ==
    /\ act.name = "readFileSync"
    /\ act' = [name |-> "detectEncoding", h |-> act.h, buffer |-> act.buffer,
               encoding |-> detectEncoding(act.buffer)]
    /\ UNCHANGED <<conversations, heap, slots, env, issued, boot, out, resp>>

NextEncoding == DetectEncoding

SpecEncoding == InitEncoding /\ [][NextEncoding]_vars

\* -------------------------------------------------------------------- claims
IsPrefix(p, q) == Len(p) <= Len(q) /\ SubSeq(q, 1, Len(p)) = p

\* What the Map of handler h holds under id, read from the state itself.
HistoryOf(h, id) ==
    IF conversations[h][id] = 0 THEN <<>> ELSE heap[conversations[h][id]]
HasHistory(h, id) == conversations[h][id] # 0
\* The same after the step.
HistoryAfter(h, id) ==
    IF conversations'[h][id] = 0 THEN <<>> ELSE heap'[conversations'[h][id]]

\* The process of handler h restarts in this step.
Restarts(h) == act'.name = "restart" /\ act'.h = h

\* This step starts a chat: a store handler has just called the LLM.
ChatStarts == act'.name = "receive" /\ out'.target = "openai" /\ out'.h \in StoreHandlers
\* This step ends a chat with a 200.
ChatSucceeds == act'.name = "complete" /\ resp'.h \in StoreHandlers /\ resp'.status = 200

\* C1: within one process lifetime the history stored under an identifier is
\* append-only: in every step the old stored sequence is a prefix of the new one,
\* for every interleaving of chat requests.
C1_AppendOnly ==
    [][\A h \in StoreHandlers, id \in Ids :
        (HasHistory(h, id) /\ ~Restarts(h)) =>
            (HasHistory(h, id)' /\ IsPrefix(HistoryOf(h, id), HistoryOf(h, id)'))]_vars

\* C2: a chat request carrying conversationId c, made when the store holds
\* history H for c, sends the LLM the system message of the handler (if it has
\* one), then H in stored order, then the new user message as the last element.
C2_SendsHistoryThenUser ==
    [][(ChatStarts /\ out'.in.cid # "") =>
        out'.messages =
            SystemOf(out'.h) \o HistoryOf(out'.h, out'.in.cid)
                \o <<Msg("user", UserContent(out'.h, out'.in))>>]_vars

\* A chat request has been sent with a stored history of at least one turn before
\* its own message.
C2_Witness ==
    /\ act.name = "receive" /\ out.target = "openai" /\ out.in.cid # ""
    /\ Len(out.messages) >= Len(SystemOf(out.h)) + 3
    /\ HasHistory(out.h, out.in.cid)

\* C3 as stated: every key of a conversation store is an identifier the server
\* generated; a string chosen by the client never becomes a key.
C3_KeysGenerated == \A h \in StoreHandlers : Keys(h) \subseteq issued

\* C3 amended: a key enters a store only through a request answered 200, and it
\* is the conversationId that request carried when it carried one, a token drawn
\* by uuidv4() only when it carried none.
C3_KeysAreRequestIds ==
    [][\A h \in StoreHandlers : \A id \in Keys(h)' \ Keys(h) :
        /\ ChatSucceeds /\ resp'.h = h /\ resp'.newId = id
        /\ IF resp'.in.cid # "" THEN id = resp'.in.cid
           ELSE id \in issued /\ id \in UUIDs]_vars

\* A store holds a key the client chose, and a store holds a generated key.
C3_Witness ==
    /\ \E h \in StoreHandlers : \E id \in ClientIds : HasHistory(h, id)
    /\ \E h \in StoreHandlers : \E id \in issued : HasHistory(h, id)

\* C4: no handler operation removes an entry of a conversation store: an
\* identifier that has a stored history has one in every later state of the same
\* process.
C4_NoEviction ==
    [][\A h \in StoreHandlers, id \in Ids :
        (HasHistory(h, id) /\ ~Restarts(h)) => HasHistory(h, id)']_vars

\* One store holds two conversations.
C4_Witness == \E h \in StoreHandlers : Cardinality(Keys(h)) >= 2

\* C5: after a restart the store is empty: the first chat request that carries
\* a conversationId the store held before the restart sends the LLM only its own
\* user message, and, answered 200, its turn is stored and returned under that
\* conversationId.
C5_RestartForgets ==
    [][/\ (ChatStarts /\ boot.h = out'.h /\ out'.newId \in boot.prior) =>
            out'.messages =
                SystemOf(out'.h) \o <<Msg("user", UserContent(out'.h, out'.in))>>
       /\ (ChatSucceeds /\ resp'.first) =>
            /\ resp'.newId = resp'.in.cid
            /\ HistoryAfter(resp'.h, resp'.in.cid) =
                <<Msg("user", UserContent(resp'.h, resp'.in)),
                  Msg("assistant", AssistantText(resp'.h, resp'.outcome))>>]_vars

\* The first request after a restart, on a conversationId of before, was answered 200.
C5_Witness == act.name = "complete" /\ resp.n = 1 /\ resp.status = 200 /\ resp.first

\* C6: the stores of the handlers are disjoint: a request handled by one leaves
\* the stores of the others as they were, and a conversationId with history in one
\* handler starts with an empty history in another.
C6_StoresDisjoint ==
    [][/\ \A h \in StoreHandlers :
            (act'.h # h /\ act'.name \in {"receive", "complete"}) =>
                \A id \in Ids :
                    /\ HasHistory(h, id)' = HasHistory(h, id)
                    /\ HistoryOf(h, id)' = HistoryOf(h, id)
       /\ (ChatStarts /\ out'.in.cid # "" /\ ~HasHistory(out'.h, out'.in.cid)) =>
            out'.messages =
                SystemOf(out'.h) \o <<Msg("user", UserContent(out'.h, out'.in))>>]_vars

\* A chat starts in one handler on a conversationId that has history only in another.
C6_Witness ==
    /\ act.name = "receive" /\ out.target = "openai" /\ out.in.cid # ""
    /\ ~HasHistory(out.h, out.in.cid)
    /\ \E h \in StoreHandlers : h # out.h /\ HasHistory(h, out.in.cid)

\* The request lacks the field its handler demands (a request without any body
\* lacks every field).  part_002 and api/summarize.js demand none.
RequiredMissing(h, in) ==
    /\ in.method = "POST"
    /\ CASE h \in {"part_000", "express_chat", "part_001", "simplesummary", "part_006a",
                   "part_003a", "api_chat", "login", "ai_request"} ->
                ~in.body \/ in.text = ""
         [] h \in {"chat2", "part_003b", "part_004", "part_005"} ->
                ~in.body \/ (in.text = "" /\ in.image = "none")
         [] h \in {"detailedsummary", "part_006b", "part_007a", "part_007b", "part_008"} ->
                ~in.body \/ (in.text = "" /\ in.file = "none")
         [] h \in {"vision3", "express_vision"} -> ~in.body \/ in.file = "none"
         [] OTHER -> FALSE

\* The request was answered after validation: neither rejected nor failed.
Served == resp.n = 1 /\ resp.in.method = "POST" /\ resp.status \in {200, 502}

\* C7 as stated: every request that passes validation issues exactly one outbound
\* HTTP request before it is answered, on every path of every handler.
C7_ExactlyOneCall == Served => resp.calls = 1

\* The outbound requests a served request makes: the S3 upload and the OpenAI call
\* for an image sent to api/chat2.js with the AWS variables set, none for an image
\* sent to the second handler of part_003 and none for api/login.js, one otherwise.
ExpectedCalls(h, in) ==
    CASE h = "login" -> 0
      [] h = "part_003b" /\ in.image = "valid" -> 0
      [] h = "chat2" /\ in.image = "valid" /\ env.aws -> 2
      [] OTHER -> 1

\* C7 amended: a request that passes validation issues one outbound HTTP request
\* before it is answered, except on three paths: two requests (S3 upload, then
\* OpenAI) for an image at api/chat2.js with S3 configured, and none for an image
\* at the second handler of part_003 and for api/login.js.
C7_CallsPerRequest == Served => resp.calls = ExpectedCalls(resp.h, resp.in)

\* An image request to api/chat2.js was answered after its two outbound requests.
C7_Witness == Served /\ resp.h = "chat2" /\ resp.in.image = "valid" /\ resp.calls = 2

RejectStatus(h, in) ==
    CASE h \in {"detailedsummary", "part_006b", "part_007b"} /\ ~env.apiKey -> 500
      [] h = "ai_request" -> 500
      [] h = "api_chat" /\ (in.cookie # "valid" \/ in.age > MaxAgeMs) -> 401
      [] ~in.body /\ h \notin {"part_000", "express_chat", "part_001", "api_chat",
                              "login", "express_vision"} -> 500
      [] OTHER -> 400

C9_UpstreamErrorForwarded ==
    (resp.n = 1 /\ resp.outcome \in {"err_json", "err_text"}) =>
        (resp.status \notin 200..299 /\ resp.up = "body")

\* C10: no request is left without an answer: no handler is ever waiting on
\* something that cannot happen.
C10_NoRequestLeftUnanswered == \A s \in Slots : slots[s].pc # "lost"

HasHistoryAfter(h, id) == conversations'[h][id] # 0

\* A chat request of a store handler ends in this step with an error response.
ChatFails == act'.name = "complete" /\ resp'.h \in StoreHandlers /\ resp'.status # 200

\* C17: a chat request that ends in an error response leaves the store as it was
\* before the request: no history gains a message from a request that was not
\* answered 200.  Every request answered 200 pushes its assistant reply after
\* its user message, so once a failed request has ended and nothing else is in
\* flight, no stored history may end with a user message.
C17_ErrorLeavesStore ==
    [][(ChatFails /\ \A s \in Slots : slots'[s] = Idle) =>
        \A id \in Ids :
            HasHistoryAfter(resp'.h, id) =>
                HistoryAfter(resp'.h, id)[Len(HistoryAfter(resp'.h, id))].role = "assistant"]_vars

\* user, assistant, user, assistant, ...: even length, starting with user.
Alternates(hist) ==
    /\ Len(hist) % 2 = 0
    /\ \A i \in 1..Len(hist) :
        hist[i].role = (IF i % 2 = 1 THEN "user" ELSE "assistant")

\* C18: every stored conversation history has even length and alternates user,
\* assistant, starting with a user message, after any sequence of successful and
\* failed chat requests (read here in the states where no request is in flight).
C18_HistoriesAlternate ==
    (\A s \in Slots : slots[s] = Idle) =>
        \A h \in StoreHandlers, id \in Ids : Alternates(HistoryOf(h, id))

\* The turns of a history: its assistant messages with the user message before.
HasTurn(hist, u, a) ==
    \E j \in 2..Len(hist) : hist[j - 1] = u /\ hist[j] = a

\* C19: every chat turn answered 200 is kept in the store: the user message and
\* assistant reply of a turn stored under an identifier stay in the history
\* stored under it in every later state of the process, also when requests on
\* one conversationId overlap.
C19_TurnsKept ==
    [][\A h \in StoreHandlers, id \in Ids :
        ~Restarts(h) =>
            \A i \in 2..Len(HistoryOf(h, id)) :
                HistoryOf(h, id)[i].role = "assistant" =>
                    HasTurn(HistoryAfter(h, id), HistoryOf(h, id)[i - 1], HistoryOf(h, id)[i])]_vars

\* An image request of api/chat2.js has its OpenAI call under way.
ImageCall == out.target = "openai" /\ out.h = "chat2" /\ out.in.image = "valid"

\* C14: api/chat2.js sends OpenAI the presigned S3 URL of the image, never the
\* inline data URL, whenever the four AWS variables are set and the S3 upload
\* succeeded; it sends the inline data URL only when a variable is missing (no
\* upload was tried) or the upload threw.
C14_PresignedWhenUploaded ==
    ImageCall =>
        /\ out.after # "none" <=> env.aws
        /\ out.url = (IF env.aws /\ out.after \in {"ok", "ok_empty"}
                      THEN "presigned" ELSE "inline")

\* Both cases happen: an image sent by presigned URL, and one sent inline after
\* the upload threw.
C14_Witness == ImageCall /\ out.url = "presigned"
C14_WitnessInline == ImageCall /\ out.url = "inline" /\ out.after = "throw"

\* The token cookie carries a signature equal to the HMAC of its payload, and
\* its age is at most SESSION_MAX_AGE_SEC seconds.
Authenticated(in) == in.cookie = "valid" /\ in.age <= SessionMaxAgeSec * 1000

\* C15: api/api/chat.js makes the OpenAI call only for a request whose token is
\* validly signed and at most SESSION_MAX_AGE_SEC seconds (default 3600) old; a
\* POST request that fails either check is answered 401 with no outbound call.
C15_CallOnlyWhenAuthenticated ==
    /\ (out.target # "none" /\ out.h = "api_chat") => Authenticated(out.in)
    /\ (resp.n = 1 /\ resp.h = "api_chat" /\ resp.calls > 0) => Authenticated(resp.in)
    /\ (resp.n = 1 /\ resp.h = "api_chat" /\ resp.in.method = "POST"
            /\ ~Authenticated(resp.in)) =>
        (resp.status = 401 /\ resp.calls = 0)

\* A token exactly SESSION_MAX_AGE_SEC old was let through to the OpenAI call.
C15_Witness ==
    out.target = "openai" /\ out.h = "api_chat" /\ out.in.age = SessionMaxAgeSec * 1000
\* A token one millisecond older was answered 401.
C15_WitnessExpired ==
    /\ resp.n = 1 /\ resp.h = "api_chat" /\ resp.status = 401
    /\ resp.in.cookie = "valid" /\ resp.in.age = SessionMaxAgeSec * 1000 + 1

\* The handlers that set the Access-Control-Allow-* headers themselves.
CorsHandlers ==
    {"simplesummary", "chat2", "ai_request", "part_003a", "part_003b", "part_004",
     "part_005", "part_006a", "part_006b", "part_007a", "part_007b", "part_008"}

\* C16: in every handler that sets CORS headers an OPTIONS request is answered
\* 200 and a request with a method other than POST or OPTIONS is answered 405,
\* in both cases without any outbound call.
C16_PreflightAndMethods ==
    (resp.n = 1 /\ resp.h \in CorsHandlers /\ resp.in.method # "POST") =>
        /\ resp.status = (IF resp.in.method = "OPTIONS" THEN 200 ELSE 405)
        /\ resp.calls = 0

\* The character c is the lower-case letter l, in either case.
SameLetter(c, l) ==
    c = l \/ \E j \in DOMAIN UpperCase : UpperCase[j] = c /\ LowerCase[j] = l
\* The name ends, whatever the case of its letters, in the extension e after at
\* least one other character.
HasExtension(name, e) ==
    /\ Len(name) > Len(Ext(e))
    /\ \A i \in 1..Len(Ext(e)) : SameLetter(name[Len(name) - Len(Ext(e)) + i], Ext(e)[i])
KnownExts ==
    {"pdf", "txt", "doc", "docx", "xls", "xlsx", "csv", "html", "htm", "md", "rtf",
     "json", "xml"}
\* The branch each conversion function has for an extension.
BranchFor(h, e) ==
    CASE e = "pdf" -> "pdf"
      [] e \in {"doc", "docx"} -> "word"
      [] h = "detailedsummary" -> IF e = "txt" THEN "text" ELSE "default"
      [] e \in {"xls", "xlsx"} -> "excel"
      [] e = "rtf" -> IF h = "part_007a" THEN "text" ELSE "default"
      [] h = "part_007a" /\ e \in {"csv", "md", "json", "xml"} -> e
      [] h = "part_007a" /\ e \in {"html", "htm"} -> "html"
      [] OTHER -> "text"
\* The name has no extension: no dot after its first character.
NoExtension(name) == \A i \in DOMAIN name : name[i] = "." => i = 1

\* C11: processFile and extractTextFromFile select the conversion branch only
\* from the lower-cased extension of the original file name: at every extraction
\* the branch taken is the one of the name's extension, whatever the declared
\* MIME type and the bytes of the file.
C11_BranchFromExtension ==
    act.name = "extract" =>
        /\ \A e \in KnownExts :
                HasExtension(act.doc.name, e) => act.branch = BranchFor(act.h, e)
        /\ (\A e \in KnownExts : ~HasExtension(act.doc.name, e)) =>
                act.branch = (IF act.h = "part_007a" /\ NoExtension(act.doc.name)
                              THEN "text" ELSE "default")

\* A file named a.PDF and declared text/plain went through the pdf branch.
C11_Witness ==
    /\ act.name = "extract" /\ act.branch = "pdf"
    /\ act.doc.name = <<"a", ".", "P", "D", "F">> /\ act.doc.mime = "text/plain"

\* A document handler of part_006 or part_007 has just sent its message to OpenAI.
DocCall == out.target = "openai" /\ out.h \in {"part_006b", "part_007a", "part_007b"}
\* kept is made of the first characters of str.
CharsPrefix(kept, str) ==
    /\ Len(kept) <= Len(str)
    /\ \A i \in 1..Len(kept) :
        /\ kept[i].t = str[i].t
        /\ IF i < Len(kept) THEN kept[i].n = str[i].n ELSE kept[i].n <= str[i].n

\* C12: the user message a file-upload handler sends is the combined message
\* unchanged when its length is at most maxLength (8000 in part_006, 12000 in
\* part_007), otherwise its first maxLength characters followed by the
\* truncation notice; it is never longer than maxLength plus the notice.
C12_TruncatedAtMaxLength ==
    DocCall =>
        LET maxLength == IF out.h = "part_006b" THEN 8000 ELSE 12000
            sent == out.messages[2].content
            kept == SubSeq(sent, 1, Len(sent) - 1)
        IN  /\ Length(out.finalMessage) <= maxLength => sent = out.finalMessage
            /\ Length(out.finalMessage) > maxLength =>
                /\ sent[Len(sent)] = Lit(NoticeOf(out.h))
                /\ CharsPrefix(kept, out.finalMessage)
                /\ Length(kept) = maxLength
            /\ Length(sent) <= maxLength + Len(NoticeOf(out.h))

\* A message and a long file were cut in the middle of the file's text.
C12_Witness ==
    /\ DocCall /\ out.in.doc # NoDoc
    /\ Length(out.finalMessage) > 12000
    /\ Length(out.messages[2].content) = 12000 + Len(NoticeOf(out.h))
\* A message of exactly maxLength characters went out whole.
C12_WitnessWhole ==
    DocCall /\ Length(out.finalMessage) = 8000 /\ out.messages[2].content = out.finalMessage

\* The text sent holds the bracketed error text.
HasPlaceholder(str) == \E i \in DOMAIN str : str[i] = Lit("[Error processing file: ")
\* The document of the request is one the handler's conversion throws on.
Fails(h, in) == in.doc # NoDoc /\ Processed(h, in.doc).thrown

\* C13 as stated: in every upload handler a conversion that throws is followed
\* by the LLM call, not by a failure response.
C13_FailureContinues ==
    (act.name = "extract" /\ act.thrown) => (out.target = "openai" /\ resp = NoResp)

\* C13: when the conversion of the uploaded file throws, the second handler of
\* part_006 and both handlers of part_007 go on to the LLM call with the
\* bracketed error text as file content and answer 200 when the call succeeds;
\* api/detailedsummary.js answers 400 and makes no call.
C13_FailureContinuesOrIs400 ==
    /\ (act.name = "extract" /\ act.thrown) =>
            IF act.h = "detailedsummary"
            THEN resp.n = 1 /\ resp.status = 400 /\ resp.calls = 0 /\ out = NoCall
            ELSE DocCall /\ resp = NoResp /\ HasPlaceholder(out.finalMessage)
    /\ (resp.n = 1 /\ resp.h \in {"part_006b", "part_007a", "part_007b"}
            /\ act.name = "complete" /\ resp.outcome \in {"ok", "ok_empty"}) =>
            resp.status = 200

\* An upload whose conversion threw has been answered 200.
C13_Witness ==
    /\ resp.n = 1 /\ resp.status = 200 /\ resp.h = "part_006b"
    /\ Fails(resp.h, resp.in)

\* C20: every temporary file created for an uploaded document is deleted before
\* the handler sends its response or goes on, whether the extraction succeeded
\* or failed.
C20_TempFileDeleted == act.name = "extract" => act.unlinked

\* C21: the upload handlers answer 400 "Message or file is required" only to a
\* request that carries neither a message nor a file: a request that uploads a
\* file is never answered with this error.
C21_RequiredOnlyWhenBothAbsent ==
    (resp.n = 1 /\ resp.h \in {"part_006b", "part_007a", "part_007b"}
        /\ resp.status = 400) =>
        (resp.in.message = <<>> /\ resp.in.doc = NoDoc)

\* An OpenAI call of chat2.js ends in this step.
Chat2CallEnds ==
    out.target = "openai" /\ out.h = "chat2" /\ act'.name = "complete" /\ act'.h = "chat2"

\* C22: chat2.js calls the OpenAI API at most once per request: when its OpenAI
\* call ends the handler answers and calls nothing more; a failed analysis after
\* a successful S3 upload is answered 502; and the inline call is made only when
\* the S3 branch was skipped or the upload failed.
C22_OneOpenAICall ==
    [][/\ Chat2CallEnds =>
            /\ out' = NoCall /\ resp'.n = 1
            /\ (out.url = "presigned" /\ resp'.outcome \notin {"ok", "ok_empty"}) =>
                    resp'.status = 502
       /\ (out'.target = "openai" /\ out'.h = "chat2" /\ out'.url = "inline") =>
            (~env.aws \/ out'.after \in {"err_json", "err_text", "throw"})]_vars

\* With the AWS variables set, an image request was answered 502 after the S3
\* step and a single OpenAI call.
C22_Witness ==
    /\ resp.n = 1 /\ resp.h = "chat2" /\ resp.in.image = "valid" /\ env.aws
    /\ resp.status = 502 /\ resp.calls = 2

\* C23: detectEncoding returns utf16le exactly for the buffers that start with
\* the bytes FF FE, utf16be exactly for those that start with FE FF, and utf8
\* for every other buffer: the empty one, those of one byte, those that start
\* with the UTF-8 byte order mark.
C23_EncodingByByteOrderMark ==
    act.name = "detectEncoding" =>
        act.encoding =
            (IF Len(act.buffer) >= 2 /\ act.buffer[1] = 255 /\ act.buffer[2] = 254
             THEN "utf16le"
             ELSE IF Len(act.buffer) >= 2 /\ act.buffer[1] = 254 /\ act.buffer[2] = 255
             THEN "utf16be"
             ELSE "utf8")

\* A buffer of the single byte FF was taken for UTF-8.
C23_Witness ==
    act.name = "detectEncoding" /\ act.buffer = <<255>> /\ act.encoding = "utf8"
\* A buffer that starts with FF FE was taken for UTF-16 LE.
C23_WitnessLE ==
    /\ act.name = "detectEncoding" /\ act.encoding = "utf16le"
    /\ Len(act.buffer) = 3 /\ act.buffer[1] = 255 /\ act.buffer[2] = 254

====
